---- MODULE Spec2Model ----
(***************************************************************************)
(* Model of the Slack export handler (src/unnamed/part_000): the trigger   *)
(* checks, the three workspace-wide remote calls, the sequential           *)
(* per-channel harvest with concurrent message enrichment and file         *)
(* embedding, and the construction of the export snapshot.                 *)
(*                                                                         *)
(* One action is one event-loop turn of the handler: the code that runs    *)
(* between the arrival of a remote response and the next await that waits  *)
(* for I/O.                                                                *)
(*                                                                         *)
(* JavaScript objects are functions from field names to values; a field    *)
(* that is missing or holds undefined is a key outside the DOMAIN.         *)
(***************************************************************************)
EXTENDS Integers, Sequences, FiniteSets, TLC

VARIABLES
    req,              \* the request: method and body.passkey
    env,              \* process.env: ADMIN_PASSKEY_HASH, SLACK_BOT_TOKEN
    pc,               \* the await the coordinating flow is suspended at
    res,              \* the response sent (status 0: none yet)
    channels,         \* const channels (line 126)
    users,            \* const users (line 134)
    usersById,        \* const usersById (line 138)
    channelMessages,  \* const channelMessages (line 144)
    channelData,      \* const channelData (line 145)
    idx,              \* position of the for...of loop in channels (line 147)
    messages,         \* const messages of the current iteration (line 160)
    base64,           \* base64Data of each finished download of the iteration
    settled,          \* message promises of the iteration, in settle order
    inflight,         \* fetches issued and not yet completed, of any channel
    calls,            \* kinds of remote call issued so far
    fetchLog,         \* every fetch issued so far, with the file it is for
    outcome,          \* per harvested channel: "ok" or "failed"
    returned,         \* per harvested channel: how many messages its
                      \* history call answered (0 when the call threw)
    thrown            \* the error that reached the outer catch, if any

vars == <<req, env, pc, res, channels, users, usersById, channelMessages,
          channelData, idx, messages, base64, settled, inflight, calls,
          fetchLog, outcome, returned, thrown>>

-----------------------------------------------------------------------------
(* Bounds *)

MaxChannels == 2
MaxMessages == 2

-----------------------------------------------------------------------------
(* JavaScript values *)

Undefined == "undefined"
Null == [null |-> TRUE]
NoError == [none |-> TRUE]

Get(obj, k) == IF k \in DOMAIN obj THEN obj[k] ELSE Undefined

\* a || b on strings: the empty string and undefined are falsy
Falsy(v) == v = "" \/ v = Undefined
Or(a, b) == IF Falsy(a) THEN b ELSE a

\* { ...obj, ...upd }
Spread(obj, upd) ==
    [k \in DOMAIN obj \cup DOMAIN upd |->
        IF k \in DOMAIN upd THEN upd[k] ELSE obj[k]]

\* obj[key] = value
Assign(obj, key, value) ==
    [k \in DOMAIN obj \cup {key} |-> IF k = key THEN value ELSE obj[k]]

EmptyObject == [k \in {} |-> Undefined]

RECURSIVE SumLengths(_, _)
SumLengths(obj, keys) ==
    IF keys = {} THEN 0
    ELSE LET k == CHOOSE x \in keys : TRUE
         IN  Len(obj[k]) + SumLengths(obj, keys \ {k})

-----------------------------------------------------------------------------
(* Constants of the program *)

MAX_FILE_SIZE_BYTES == 5 * 1024 * 1024

EMBEDDABLE_MIMETYPES ==
    {"image/jpeg", "image/png", "image/gif", "image/webp", "image/svg+xml"}

\* crypto.createHash('sha256').update(str).digest('hex'), on the passkeys
\* the model sends
secureHash(str) ==
    CASE str = "letmein" -> "5e884898"
      [] str = "guess"   -> "2bb80d53"
      [] OTHER           -> "e3b0c442"

\* Buffer.toString('base64')
Base64Alphabet ==
    <<"A","B","C","D","E","F","G","H","I","J","K","L","M","N","O","P",
      "Q","R","S","T","U","V","W","X","Y","Z","a","b","c","d","e","f",
      "g","h","i","j","k","l","m","n","o","p","q","r","s","t","u","v",
      "w","x","y","z","0","1","2","3","4","5","6","7","8","9","+","/">>

B64(n) == Base64Alphabet[n + 1]

RECURSIVE toBase64(_)
toBase64(bytes) ==
    IF Len(bytes) = 0 THEN <<>>
    ELSE IF Len(bytes) = 1 THEN
        <<B64(bytes[1] \div 4), B64((bytes[1] % 4) * 16), "=", "=">>
    ELSE IF Len(bytes) = 2 THEN
        <<B64(bytes[1] \div 4),
          B64((bytes[1] % 4) * 16 + bytes[2] \div 16),
          B64((bytes[2] % 16) * 4), "=">>
    ELSE
        <<B64(bytes[1] \div 4),
          B64((bytes[1] % 4) * 16 + bytes[2] \div 16),
          B64((bytes[2] % 16) * 4 + bytes[3] \div 64),
          B64(bytes[3] % 64)>>
        \o toBase64(SubSeq(bytes, 4, Len(bytes)))

-----------------------------------------------------------------------------
(* What the remote service can answer *)

ErrorCodes == {"not_authed", "missing_scope", "rate_limited", "ENOTFOUND"}

ChanGeneral ==
    [id |-> "C01", name |-> "general", created |-> 100, creator |-> "U1",
     is_archived |-> FALSE, is_general |-> TRUE, num_members |-> 3,
     purpose |-> [value |-> "company news"], topic |-> [value |-> "hello"]]

ChanSecret ==
    [id |-> "C02", name |-> "secret-ops", created |-> 200, creator |-> "U2",
     is_archived |-> FALSE, is_general |-> FALSE, num_members |-> 0,
     purpose |-> [value |-> ""]]

\* an archived channel whose name has been reused
ChanOldGeneral ==
    [id |-> "C03", name |-> "general", created |-> 50, creator |-> "U3",
     is_archived |-> TRUE, is_general |-> FALSE,
     topic |-> [value |-> "old"]]

Workspace == <<ChanGeneral, ChanSecret, ChanOldGeneral>>

UserFull ==
    [id |-> "U1", name |-> "alice", real_name |-> "Alice A",
     profile |-> [display_name |-> "ally", image_72 |-> "a.png"]]

UserNoDisplay ==
    [id |-> "U2", name |-> "bob", real_name |-> "Bob B",
     profile |-> [display_name |-> "", image_72 |-> "b.png"]]

\* a user with only name set
UserOnlyName == [id |-> "U3", name |-> "carol"]

UserLists == {<<>>, <<UserFull, UserNoDisplay, UserOnlyName>>}

FilePng2MB ==
    [id |-> "F1", name |-> "chart.png", mimetype |-> "image/png",
     size |-> 2 * 1024 * 1024, url_private |-> "https://files/F1"]

FileAtLimit ==
    [id |-> "F2", name |-> "photo.jpg", mimetype |-> "image/jpeg",
     size |-> MAX_FILE_SIZE_BYTES, url_private |-> "https://files/F2"]

FileTooBig ==
    [id |-> "F3", name |-> "big.gif", mimetype |-> "image/gif",
     size |-> MAX_FILE_SIZE_BYTES + 1, url_private |-> "https://files/F3"]

FilePdf ==
    [id |-> "F4", name |-> "report.pdf", mimetype |-> "application/pdf",
     size |-> 1024, url_private |-> "https://files/F4"]

FileNoUrl ==
    [id |-> "F5", name |-> "gone.png", mimetype |-> "image/png",
     size |-> 1024]

\* a file that already carries an embedded payload
FileEmbedded ==
    [id |-> "F6", name |-> "logo.webp", mimetype |-> "image/webp",
     size |-> 512, url_private |-> "https://files/F6",
     file_data |-> <<"Q", "Q", "=", "=">>,
     file_data_mimetype |-> "image/webp"]

MsgPlain == [ts |-> 1, user |-> "U1", text |-> "hi", files |-> <<>>]

MsgPng == [ts |-> 2, user |-> "U3", text |-> "see chart",
           files |-> <<FilePng2MB, FileAtLimit>>]

MsgMixed == [ts |-> 3, user |-> "U2", text |-> "files",
             files |-> <<FilePdf, FileTooBig>>]

MsgBot == [ts |-> 4, text |-> "joined", subtype |-> "channel_join"]

MsgStranger == [ts |-> 5, user |-> "U9", text |-> "re-export",
                files |-> <<FileEmbedded, FileNoUrl>>,
                user_profile |-> [display_name |-> "ghost",
                                  real_name |-> "Ghost",
                                  image_72 |-> "g.png"]]

\* a message whose files array holds a null entry: file.url_private throws
MsgBroken == [ts |-> 6, user |-> "U1", text |-> "broken", files |-> <<Null>>]

\* the messages of a channel, in timestamp order; ts is unique
Timeline == <<MsgPlain, MsgPng, MsgMixed, MsgBot, MsgStranger, MsgBroken>>

\* conversations.history answers: a stretch of the timeline, in its order
Histories ==
    UNION {{SubSeq(Timeline, from, to) :
               to \in {t \in (from - 1)..Len(Timeline) :
                          t - from < MaxMessages}} :
           from \in 1..Len(Timeline)}

\* conversations.list answers: some channels of the workspace, each once,
\* in the order of the workspace
ChannelLists ==
    {SelectSeq(Workspace, LAMBDA c : c.id \in ids) :
        ids \in {S \in SUBSET {"C01", "C02", "C03"} :
                    Cardinality(S) <= MaxChannels}}

FetchOutcomes ==
    {[kind |-> "ok", body |-> <<77, 97, 110>>],
     [kind |-> "ok", body |-> <<>>],
     [kind |-> "http_error", body |-> <<>>],
     [kind |-> "network_error", body |-> <<>>]}

-----------------------------------------------------------------------------
(* The Attachment Embedder *)

\* a mutation of downloadFileAsBase64: a rejected fetch is not caught
downloadFileAsBase64Uncaught(fetched) ==
    IF fetched.kind = "ok"
    THEN [tag |-> "string", value |-> toBase64(fetched.body)]
    ELSE IF fetched.kind = "network_error" THEN [tag |-> "throw"]
    ELSE [tag |-> "null"]

\* downloadFileAsBase64, given what the fetch did: the base64 text, or null
downloadFileAsBase64(fetched) ==
    IF fetched.kind = "ok"
    THEN [tag |-> "string", value |-> toBase64(fetched.body)]
    ELSE [tag |-> "null"]

\* if (base64Data): null and the empty string are falsy
Truthy(r) == r.tag = "string" /\ r.value # <<>>

\* a mutation of shouldEmbed: the size ceiling is exclusive
shouldEmbedBelowLimit(file) ==
    /\ ~Falsy(Get(file, "url_private"))
    /\ file.size < MAX_FILE_SIZE_BYTES
    /\ file.mimetype \in EMBEDDABLE_MIMETYPES

shouldEmbed(file) ==
    /\ ~Falsy(Get(file, "url_private"))
    /\ file.size <= MAX_FILE_SIZE_BYTES
    /\ file.mimetype \in EMBEDDABLE_MIMETYPES

\* the value the per-file callback returns, given base64Data
embedFile(file, base64Data) ==
    IF shouldEmbed(file) /\ Truthy(base64Data)
    THEN Spread(file, [file_data |-> base64Data.value,
                       file_data_mimetype |-> file.mimetype])
    ELSE file

\* the fetches one message issues, as <<message index, file index>>
FetchesOf(msgs, k) ==
    IF "files" \in DOMAIN msgs[k]
    THEN {<<k, j>> : j \in {i \in 1..Len(msgs[k].files) :
                              /\ msgs[k].files[i] # Null
                              /\ shouldEmbed(msgs[k].files[i])}}
    ELSE {}

AllFetches(msgs) == UNION {FetchesOf(msgs, k) : k \in 1..Len(msgs)}

\* file.url_private on a null entry throws: the message's promise rejects
Rejects(message) ==
    /\ "files" \in DOMAIN message
    /\ \E j \in 1..Len(message.files) : message.files[j] = Null

\* processMessageFiles, given the base64Data of the downloads of message k
processMessageFiles(files, k, results) ==
    IF Len(files) = 0 THEN files
    ELSE [j \in 1..Len(files) |->
            embedFile(files[j],
                      IF <<k, j>> \in DOMAIN results
                      THEN results[<<k, j>>] ELSE [tag |-> "null"])]

-----------------------------------------------------------------------------
(* The Message Enricher *)

Compact(obj) == [k \in {x \in DOMAIN obj : obj[x] # Undefined} |-> obj[k]]

ProfileOf(user, k) ==
    IF "profile" \in DOMAIN user THEN Get(user.profile, k) ELSE Undefined

\* a mutation of displayName: the handle is not a fallback
displayNameNoHandle(user) ==
    Or(ProfileOf(user, "display_name"), Get(user, "real_name"))

displayName(user) ==
    Or(Or(ProfileOf(user, "display_name"), Get(user, "real_name")),
       Get(user, "name"))

realName(user) == Or(Get(user, "real_name"), Get(user, "name"))

\* a mutation of userProfile: a lookup miss leaves a placeholder object
userProfilePlaceholder(index, message) ==
    IF Get(message, "user") \in DOMAIN index
    THEN LET user == index[message.user]
         IN  Compact([display_name |-> displayName(user),
                      real_name    |-> realName(user),
                      image_72     |-> ProfileOf(user, "image_72")])
    ELSE EmptyObject

userProfile(index, message) ==
    IF Get(message, "user") \in DOMAIN index
    THEN LET user == index[message.user]
         IN  Compact([display_name |-> displayName(user),
                      real_name    |-> realName(user),
                      image_72     |-> ProfileOf(user, "image_72")])
    ELSE Null

\* the object the per-message callback returns
transformMessage(message, k, results, index) ==
    IF "files" \in DOMAIN message
    THEN Spread(message,
                [files        |-> processMessageFiles(message.files, k, results),
                 user_profile |-> userProfile(index, message)])
    ELSE Spread(message, [user_profile |-> userProfile(index, message)])

\* a mutation of PromiseAll: the values in the order the promises settled
PromiseAllSettleOrder(values, order) ==
    [k \in 1..Len(values) |-> values[order[k]]]

\* Promise.all: the values of the promises, by position in the input
PromiseAll(values, order) == [k \in 1..Len(values) |-> values[k]]

transformedMessages(msgs, results, order, index) ==
    PromiseAll([k \in 1..Len(msgs) |->
                   transformMessage(msgs[k], k, results, index)],
               order)

-----------------------------------------------------------------------------
(* The Export Aggregator *)

RECURSIVE buildUsersById(_)
buildUsersById(list) ==
    IF list = <<>> THEN EmptyObject
    ELSE Assign(buildUsersById(SubSeq(list, 1, Len(list) - 1)),
                list[Len(list)].id, list[Len(list)])

ValueOf(channel, k) ==
    IF k \in DOMAIN channel THEN Get(channel[k], "value") ELSE Undefined

channelDescriptor(channel) ==
    [id          |-> channel.id,
     name        |-> channel.name,
     created     |-> channel.created,
     creator     |-> channel.creator,
     is_archived |-> channel.is_archived,
     is_general  |-> channel.is_general,
     members     |-> IF "num_members" \in DOMAIN channel
                     THEN channel.num_members ELSE 0,
     purpose     |-> Or(ValueOf(channel, "purpose"), ""),
     topic       |-> Or(ValueOf(channel, "topic"), "")]

RECURSIVE SumPerChannel(_, _)
SumPerChannel(cm, i) ==
    IF i = 0 THEN 0
    ELSE Len(cm[channels[i].name]) + SumPerChannel(cm, i - 1)

\* a mutation of totalMessages: one term per enumerated channel
totalMessagesPerChannel(cm) == SumPerChannel(cm, Len(channels))

totalMessages(cm) == SumLengths(cm, DOMAIN cm)

exportData(cm, cd) ==
    [channels      |-> cd,
     messages      |-> cm,
     users         |-> usersById',
     totalChannels |-> Len(channels),
     totalUsers    |-> Len(users'),
     totalMessages |-> totalMessages(cm)]

\* a mutation of errorStatus: rate limiting is not classified
errorStatusNoRateLimit(error) ==
    IF Get(error, "code") = "not_authed" THEN 401
    ELSE IF Get(error, "code") = "missing_scope" THEN 403
    ELSE 500

errorStatus(error) ==
    IF Get(error, "code") = "not_authed" THEN 401
    ELSE IF Get(error, "code") = "missing_scope" THEN 403
    ELSE IF Get(error, "code") = "rate_limited" THEN 429
    ELSE 500

errorText(error) ==
    IF Get(error, "code") = "not_authed"
    THEN "Slack authentication failed. Please check your bot token."
    ELSE IF Get(error, "code") = "missing_scope"
    THEN "Insufficient Slack permissions."
    ELSE IF Get(error, "code") = "rate_limited"
    THEN "Rate limited by Slack API. Please try again later."
    ELSE "Failed to export Slack data"

RemoteError(code) == [code |-> code, message |-> code]
TypeError == [message |-> "Cannot read properties of null"]

-----------------------------------------------------------------------------
(* The handler *)

Init ==
    /\ req \in [method : {"POST", "GET"},
                passkey : {Undefined, "letmein", "guess"}]
    /\ env \in [ADMIN_PASSKEY_HASH : {Undefined, secureHash("letmein")},
                SLACK_BOT_TOKEN : {Undefined, "xoxb-1"}]
    /\ pc = "request"
    /\ res = [status |-> 0]
    /\ channels = <<>>
    /\ users = <<>>
    /\ usersById = EmptyObject
    /\ channelMessages = EmptyObject
    /\ channelData = EmptyObject
    /\ idx = 0
    /\ messages = <<>>
    /\ base64 = EmptyObject
    /\ settled = <<>>
    /\ inflight = {}
    /\ calls = {}
    /\ fetchLog = {}
    /\ outcome = <<>>
    /\ returned = <<>>
    /\ thrown = NoError

\* an early return: res.status(status).json({ error })
Respond(status, text) ==
    /\ res' = [status |-> status, error |-> text]
    /\ pc' = "done"

\* the catch block of the handler
outerCatch(error) ==
    /\ res' = [status |-> errorStatus(error), error |-> errorText(error)]
    /\ thrown' = error
    /\ pc' = "done"

\* the head of the for...of loop at position i, with the two mappings as
\* they are now and the remote calls issued so far: the next history call,
\* or the snapshot and the success response after the last channel. The
\* block-scoped values of the iteration that ended are gone.
loopHead(i, cm, cd, issued) ==
    /\ idx' = i
    /\ channelMessages' = cm
    /\ channelData' = cd
    /\ thrown' = thrown
    /\ messages' = <<>>
    /\ base64' = EmptyObject
    /\ settled' = <<>>
    /\ IF i <= Len(channels)
       THEN /\ pc' = "conversations.history"
            /\ calls' = issued \cup {"conversations.history"}
            /\ res' = res
       ELSE /\ pc' = "done"
            /\ calls' = issued
            /\ res' = [status |-> 200, success |-> TRUE,
                       data |-> exportData(cm, cd)]

\* a mutation of channelCatch: no try/catch around the iteration
channelRethrow(error, issued) ==
    /\ outerCatch(error)
    /\ outcome' = Append(outcome, "failed")
    /\ calls' = issued
    /\ UNCHANGED <<idx, channelMessages, channelData, messages, base64,
                   settled>>

\* catch (channelError): the degraded bundle, then on to the next channel
channelCatch(error, issued) ==
    /\ outcome' = Append(outcome, "failed")
    /\ loopHead(idx + 1,
                Assign(channelMessages, channels[idx].name, <<>>),
                Assign(channelData, channels[idx].name,
                       channelDescriptor(channels[idx])),
                issued)

\* the rest of the try block once Promise.all has resolved: both mappings
\* are written and the pacing timer is started
channelDone(msgs, results, order, issued) ==
    /\ channelMessages' =
          Assign(channelMessages, channels[idx].name,
                 transformedMessages(msgs, results, order, usersById))
    /\ channelData' = Assign(channelData, channels[idx].name,
                             channelDescriptor(channels[idx]))
    /\ outcome' = Append(outcome, "ok")
    /\ messages' = msgs
    /\ base64' = results
    /\ settled' = order
    /\ pc' = "delay"
    /\ calls' = issued
    /\ UNCHANGED <<idx, res, thrown>>

MethodNotAllowed ==
    /\ pc = "request"
    /\ req.method # "POST"
    /\ Respond(405, "Method not allowed")
    /\ UNCHANGED <<req, env, channels, users, usersById, channelMessages,
                   channelData, idx, messages, base64, settled, inflight,
                   calls, fetchLog, outcome, returned, thrown>>

AuthenticationRequired ==
    /\ pc = "request"
    /\ req.method = "POST"
    /\ Falsy(req.passkey)
    /\ Respond(401, "Authentication required")
    /\ UNCHANGED <<req, env, channels, users, usersById, channelMessages,
                   channelData, idx, messages, base64, settled, inflight,
                   calls, fetchLog, outcome, returned, thrown>>

AdminAccessRequired ==
    /\ pc = "request"
    /\ req.method = "POST"
    /\ ~Falsy(req.passkey)
    /\ secureHash(req.passkey) # env.ADMIN_PASSKEY_HASH
    /\ Respond(401, "Admin access required")
    /\ UNCHANGED <<req, env, channels, users, usersById, channelMessages,
                   channelData, idx, messages, base64, settled, inflight,
                   calls, fetchLog, outcome, returned, thrown>>

TokenNotConfigured ==
    /\ pc = "request"
    /\ req.method = "POST"
    /\ ~Falsy(req.passkey)
    /\ secureHash(req.passkey) = env.ADMIN_PASSKEY_HASH
    /\ Falsy(env.SLACK_BOT_TOKEN)
    /\ Respond(500, "Slack bot token not configured.")
    /\ UNCHANGED <<req, env, channels, users, usersById, channelMessages,
                   channelData, idx, messages, base64, settled, inflight,
                   calls, fetchLog, outcome, returned, thrown>>

\* a mutation of StartExport: the hash of the passkey is not compared
StartExportAnyPasskey ==
    /\ pc = "request"
    /\ req.method = "POST"
    /\ ~Falsy(req.passkey)
    /\ ~Falsy(env.SLACK_BOT_TOKEN)
    /\ pc' = "auth.test"
    /\ calls' = calls \cup {"auth.test"}
    /\ UNCHANGED <<req, env, res, channels, users, usersById,
                   channelMessages, channelData, idx, messages, base64,
                   settled, inflight, fetchLog, outcome, returned, thrown>>

\* all checks pass: slack.auth.test() is issued
StartExport ==
    /\ pc = "request"
    /\ req.method = "POST"
    /\ ~Falsy(req.passkey)
    /\ secureHash(req.passkey) = env.ADMIN_PASSKEY_HASH
    /\ ~Falsy(env.SLACK_BOT_TOKEN)
    /\ pc' = "auth.test"
    /\ calls' = calls \cup {"auth.test"}
    /\ UNCHANGED <<req, env, res, channels, users, usersById,
                   channelMessages, channelData, idx, messages, base64,
                   settled, inflight, fetchLog, outcome, returned, thrown>>

AuthTestOk ==
    /\ pc = "auth.test"
    /\ pc' = "conversations.list"
    /\ calls' = calls \cup {"conversations.list"}
    /\ UNCHANGED <<req, env, res, channels, users, usersById,
                   channelMessages, channelData, idx, messages, base64,
                   settled, inflight, fetchLog, outcome, returned, thrown>>

ChannelsListOk ==
    /\ pc = "conversations.list"
    /\ \E list \in ChannelLists : channels' = list
    /\ pc' = "users.list"
    /\ calls' = calls \cup {"users.list"}
    /\ UNCHANGED <<req, env, res, users, usersById, channelMessages,
                   channelData, idx, messages, base64, settled, inflight,
                   fetchLog, outcome, returned, thrown>>

\* auth.test, conversations.list or users.list throws
WorkspaceCallFails ==
    /\ pc \in {"auth.test", "conversations.list", "users.list"}
    /\ \E code \in ErrorCodes : outerCatch(RemoteError(code))
    /\ UNCHANGED <<req, env, channels, users, usersById, channelMessages,
                   channelData, idx, messages, base64, settled, inflight,
                   calls, fetchLog, outcome, returned>>

\* users.list answers: the index is built and the loop is entered
UsersListOk ==
    /\ pc = "users.list"
    /\ UNCHANGED <<req, env, channels, inflight, fetchLog, outcome, returned>>
    /\ \E list \in UserLists :
          /\ users' = list
          /\ usersById' = buildUsersById(list)
    /\ loopHead(1, channelMessages, channelData, calls)

\* conversations.history throws
HistoryFails ==
    /\ pc = "conversations.history"
    /\ UNCHANGED <<req, env, channels, users, usersById, inflight, fetchLog>>
    /\ returned' = Append(returned, 0)
    /\ \E code \in ErrorCodes : channelCatch(RemoteError(code), calls)

\* the messages whose promise settles without waiting for a download
SettledAtOnce(msgs) ==
    SelectSeq([k \in 1..Len(msgs) |-> k],
              LAMBDA k : FetchesOf(msgs, k) = {})

Tagged(ch, tasks) == {[ch |-> ch, m |-> t[1], f |-> t[2]] : t \in tasks}

Logged(ch, msgs, tasks) ==
    {[ch |-> ch, m |-> t[1], f |-> t[2], file |-> msgs[t[1]].files[t[2]]] :
        t \in tasks}

\* conversations.history answers: every message callback runs up to its
\* first await, which issues every fetch of the channel; then Promise.all
\* rejects at once, resolves at once, or waits for the downloads
HistoryOk ==
    /\ pc = "conversations.history"
    /\ UNCHANGED <<req, env, channels, users, usersById>>
    /\ \E msgs \in Histories :
          LET tasks  == AllFetches(msgs)
              issued == IF tasks = {} THEN calls ELSE calls \cup {"fetch"}
              atOnce == SettledAtOnce(msgs)
          IN  /\ returned' = Append(returned, Len(msgs))
              /\ inflight' = inflight \cup Tagged(idx, tasks)
              /\ fetchLog' = fetchLog \cup Logged(idx, msgs, tasks)
              /\ IF \E k \in 1..Len(msgs) : Rejects(msgs[k])
                 THEN channelCatch(TypeError, issued)
                 ELSE IF tasks = {}
                 THEN channelDone(msgs, EmptyObject, atOnce, issued)
                 ELSE /\ pc' = "enrich"
                      /\ messages' = msgs
                      /\ base64' = EmptyObject
                      /\ settled' = atOnce
                      /\ calls' = issued
                      /\ UNCHANGED <<res, idx, channelMessages, channelData,
                                     outcome, thrown>>

\* a download of the channel being harvested completes
DownloadCompletes ==
    /\ pc = "enrich"
    /\ UNCHANGED <<req, env, channels, users, usersById, fetchLog, returned>>
    /\ \E t \in inflight, fetched \in FetchOutcomes :
          LET base64Data == downloadFileAsBase64(fetched)
              results    == Assign(base64, <<t.m, t.f>>, base64Data)
              waiting    == {u \in inflight \ {t} : u.ch = idx}
              order      == IF \E u \in waiting : u.m = t.m
                            THEN settled ELSE Append(settled, t.m)
          IN  /\ t.ch = idx
              /\ inflight' = inflight \ {t}
              /\ IF base64Data.tag = "throw"
                 THEN channelCatch(TypeError, calls)
                 ELSE IF waiting = {}
                 THEN channelDone(messages, results, order, calls)
                 ELSE /\ base64' = results
                      /\ settled' = order
                      /\ UNCHANGED <<pc, res, idx, channelMessages,
                                     channelData, messages, calls, outcome,
                                     thrown>>

\* a download completes whose channel has already been given up: nobody
\* awaits its result
OrphanDownloadCompletes ==
    /\ \E t \in inflight :
          /\ t.ch # idx \/ pc # "enrich"
          /\ inflight' = inflight \ {t}
    /\ UNCHANGED <<req, env, pc, res, channels, users, usersById,
                   channelMessages, channelData, idx, messages, base64,
                   settled, calls, fetchLog, outcome, returned, thrown>>

\* the 100 ms timer fires: the loop goes on
DelayElapsed ==
    /\ pc = "delay"
    /\ UNCHANGED <<req, env, channels, users, usersById, inflight, fetchLog,
                   outcome, returned>>
    /\ loopHead(idx + 1, channelMessages, channelData, calls)

Next ==
    \/ MethodNotAllowed
    \/ AuthenticationRequired
    \/ AdminAccessRequired
    \/ TokenNotConfigured
    \/ StartExport
    \/ AuthTestOk
    \/ ChannelsListOk
    \/ WorkspaceCallFails
    \/ UsersListOk
    \/ HistoryFails
    \/ HistoryOk
    \/ DownloadCompletes
    \/ OrphanDownloadCompletes
    \/ DelayElapsed

Spec == Init /\ [][Next]_vars

-----------------------------------------------------------------------------
(* Properties *)

\* a snapshot has been produced and sent
Produced == pc = "done" /\ "data" \in DOMAIN res

\* the bundle just written, while the pacing timer of its channel runs
Bundle == channelMessages[channels[idx].name]

Last(s) == s[Len(s)]

FailedBefore(s) == \E i \in 1..Len(s) : s[i] = "failed"

\* C1: when steps 1-3 succeed and N channels are enumerated, the snapshot
\* has exactly N channel entries, and every channel whose harvest failed has
\* an empty message list and the descriptor derived from the listing.
C1_CompleteUnderPartialFailure ==
    Produced =>
        /\ Cardinality(DOMAIN res.data.channels) = Len(channels)
        /\ \A i \in 1..Len(channels) :
              outcome[i] = "failed" =>
                  /\ res.data.messages[channels[i].name] = <<>>
                  /\ res.data.channels[channels[i].name] =
                        channelDescriptor(channels[i])

\* C2: in every snapshot, totalChannels is the number of entries of the
\* channel mapping.
C2_TotalChannelsCountsEntries ==
    Produced =>
        res.data.totalChannels = Cardinality(DOMAIN res.data.channels)

\* C3: in every snapshot, totalMessages is the sum of the lengths of the
\* message lists of the bundles present in the snapshot (counted here as the
\* number of (bundle, position) pairs).
C3_TotalMessagesIsSum ==
    Produced =>
        res.data.totalMessages =
            Cardinality(UNION {{<<n, k>> : k \in 1..Len(res.data.messages[n])} :
                                 n \in DOMAIN res.data.messages})

\* two channels share a name, so the snapshot has fewer bundles than
\* channels, and the bundle that is there has messages
C3_Witness ==
    /\ Produced
    /\ Len(channels) = 2
    /\ Cardinality(DOMAIN res.data.messages) = 1
    /\ res.data.totalMessages = 2

\* C4: an exception while fetching or enriching a channel's history never
\* passes the channel boundary: the step that fails records a bundle with an
\* empty message sequence for the channel and goes on to the next channel,
\* and the run still ends with the success response.
C4_FailureContained ==
    [][/\ (Len(outcome') = Len(outcome) + 1 /\ Last(outcome') = "failed") =>
            /\ channels[idx].name \in DOMAIN channelMessages'
            /\ channelMessages'[channels[idx].name] = <<>>
            /\ channels[idx].name \in DOMAIN channelData'
            /\ thrown' = NoError
            /\ idx' = idx + 1
            /\ pc' = IF idx < Len(channels)
                     THEN "conversations.history" ELSE "done"
       /\ (FailedBefore(outcome') /\ pc' = "done") =>
            /\ res'.status = 200
            /\ "data" \in DOMAIN res']_vars

\* the first channel failed, the second was harvested, the run succeeded
C4_Witness ==
    /\ pc = "done"
    /\ outcome = <<"failed", "ok">>
    /\ res.status = 200
    /\ channels[1].name # channels[2].name
    /\ channelMessages[channels[1].name] = <<>>
    /\ channelMessages[channels[2].name] # <<>>

\* C5: a failure of auth.test, conversations.list or users.list aborts the
\* export: the response has no snapshot and its status follows the error
\* kind: not_authed 401, missing_scope 403, rate_limited 429, other 500.
C5_FatalAborts ==
    thrown # NoError =>
        /\ pc = "done"
        /\ "data" \notin DOMAIN res
        /\ res.status = CASE thrown.code = "not_authed"    -> 401
                          [] thrown.code = "missing_scope" -> 403
                          [] thrown.code = "rate_limited"  -> 429
                          [] OTHER                         -> 500

\* users.list was rate limited after the channels had been enumerated
C5_Witness ==
    /\ thrown # NoError
    /\ thrown.code = "rate_limited"
    /\ res.status = 429
    /\ channels # <<>>
    /\ "users.list" \in calls

\* C6: the bundle of a harvested channel is the enriched messages of the
\* history answer in the order of the answer, and the files of each
\* message in the order of the message, whatever order the enrichments and
\* the downloads completed in.
C6_OrderPreserved ==
    pc = "delay" =>
        /\ Len(Bundle) = Len(messages)
        /\ \A k \in 1..Len(messages) :
              /\ Bundle[k].ts = messages[k].ts
              /\ Bundle[k].text = messages[k].text
              /\ "files" \in DOMAIN messages[k] =>
                    /\ Len(Bundle[k].files) = Len(messages[k].files)
                    /\ \A j \in 1..Len(messages[k].files) :
                          Bundle[k].files[j].id = messages[k].files[j].id

\* the second message settled before the first
C6_Witness ==
    /\ pc = "delay"
    /\ settled = <<2, 1>>
    /\ Bundle[1].ts < Bundle[2].ts

\* C7 speaks of size, mimetype and URL
Ineligible(file) ==
    \/ file.size > 5 * 1024 * 1024
    \/ file.mimetype \notin {"image/jpeg", "image/png", "image/gif",
                             "image/webp", "image/svg+xml"}
    \/ "url_private" \notin DOMAIN file

AtCeiling(file) ==
    /\ file.size = 5 * 1024 * 1024
    /\ file.mimetype \in {"image/jpeg", "image/png", "image/gif",
                          "image/webp", "image/svg+xml"}
    /\ "url_private" \in DOMAIN file

\* C7: no fetch is ever issued for a file over 5 MiB, of a mimetype outside
\* the embeddable set or without a URL, and such a file is in the bundle
\* exactly as it was in the history answer; a file of exactly 5 MiB with an
\* embeddable mimetype and a URL is fetched.
C7_IneligiblePassThrough ==
    /\ \A t \in fetchLog : ~Ineligible(t.file)
    /\ pc = "delay" =>
          \A k \in 1..Len(messages) :
              "files" \in DOMAIN messages[k] =>
                  \A j \in 1..Len(messages[k].files) :
                      /\ Ineligible(messages[k].files[j]) =>
                            Bundle[k].files[j] = messages[k].files[j]
                      /\ AtCeiling(messages[k].files[j]) =>
                            \E t \in fetchLog :
                                t.ch = idx /\ t.m = k /\ t.f = j

\* a bundle with a document, an oversized image and an embedded image of
\* exactly 5 MiB
C7_Witness ==
    /\ pc = "delay"
    /\ messages = <<MsgPng, MsgMixed>>
    /\ "file_data" \in DOMAIN Bundle[1].files[2]
    /\ Bundle[2].files = <<FilePdf, FileTooBig>>

\* C8: the output of the embedder equals its input, or equals its input
\* plus a populated payload (data and mimetype); no field of the input is
\* removed or changed, also when the input already carries a payload.
C8_UpgradeOnly ==
    pc = "delay" =>
        \A k \in 1..Len(messages) :
            "files" \in DOMAIN messages[k] =>
                \A j \in 1..Len(messages[k].files) :
                    LET in  == messages[k].files[j]
                        out == Bundle[k].files[j]
                    IN  \/ out = in
                        \/ /\ DOMAIN out = DOMAIN in
                                \cup {"file_data", "file_data_mimetype"}
                           /\ out.file_data # <<>>
                           /\ \A x \in DOMAIN in : out[x] = in[x]

\* C9: a download that ends in a non-success status, a network error or a
\* timeout cannot fail the channel being enriched, and in the bundle the
\* message is present and the file is as it was in the history answer.
C9_DownloadFailureIsSoft ==
    [][/\ pc = "enrich" => outcome' \in {outcome, Append(outcome, "ok")}
       /\ pc' = "delay" =>
            /\ Len(Bundle') = Len(messages')
            /\ \A t \in DOMAIN base64' :
                  base64'[t].tag = "null" =>
                      /\ Bundle'[t[1]].ts = messages'[t[1]].ts
                      /\ "user_profile" \in DOMAIN Bundle'[t[1]]
                      /\ Bundle'[t[1]].files[t[2]] =
                            messages'[t[1]].files[t[2]]]_vars

\* a download failed and both messages of the channel are in its bundle
C9_Witness ==
    /\ pc = "delay"
    /\ Last(outcome) = "ok"
    /\ Len(Bundle) = 2
    /\ \E t \in DOMAIN base64 :
          /\ base64[t].tag = "null"
          /\ Bundle[t[1]].files[t[2]] = messages[t[1]].files[t[2]]

RECURSIVE FirstNonEmpty(_)
FirstNonEmpty(names) ==
    IF Len(names) = 1 \/ names[1] \notin {"", Undefined} THEN names[1]
    ELSE FirstNonEmpty(Tail(names))

\* C10: a message whose author is in the user index carries a profile
\* whose display name is the first non-empty of profile display_name,
\* real_name and name, and whose real name is the first non-empty of
\* real_name and name.
C10_FallbackChain ==
    pc = "delay" =>
        \A k \in 1..Len(messages) :
            Get(messages[k], "user") \in DOMAIN usersById =>
                LET user == usersById[messages[k].user]
                    own  == IF "profile" \in DOMAIN user
                            THEN Get(user.profile, "display_name")
                            ELSE Undefined
                IN  /\ Bundle[k].user_profile # Null
                    /\ Get(Bundle[k].user_profile, "display_name") =
                          FirstNonEmpty(<<own, Get(user, "real_name"),
                                          Get(user, "name")>>)
                    /\ Get(Bundle[k].user_profile, "real_name") =
                          FirstNonEmpty(<<Get(user, "real_name"),
                                          Get(user, "name")>>)

\* a message of the user who has only a name
C10_Witness ==
    /\ pc = "delay"
    /\ \E k \in 1..Len(messages) :
          /\ Get(messages[k], "user") = "U3"
          /\ "U3" \in DOMAIN usersById
          /\ DOMAIN usersById["U3"] = {"id", "name"}
          /\ Bundle[k].user_profile.display_name = "carol"

\* C11: the pacing delay elapses between the end of the harvest of a
\* channel, successful or failed, and the first remote call for the next
\* channel: the history call of a later channel is issued only by the turn
\* in which the timer fires.
C11_PacingAfterEveryHarvest ==
    [][(pc' = "conversations.history" /\ idx' = idx + 1 /\ idx >= 1) =>
            pc = "delay"]_vars

\* the channels that have a remote operation in flight
ChannelsInFlight ==
    {t.ch : t \in inflight}
        \cup (IF pc = "conversations.history" THEN {idx} ELSE {})

\* C12: the remote operations in flight (history call, downloads) belong to
\* at most one channel, so the history call of the next channel is issued
\* only when no download of an earlier channel is still running, also after
\* a contained failure.
C12_StrictlySequential == Cardinality(ChannelsInFlight) <= 1

\* C13: every eligible file whose fetch succeeded, whatever the length of
\* the body, is in the bundle with the encoded bytes as payload and its own
\* mimetype as payload mimetype.
C13_SuccessfulFetchEmbeds ==
    pc = "delay" =>
        \A t \in DOMAIN base64 :
            base64[t].tag = "string" =>
                LET in  == messages[t[1]].files[t[2]]
                    out == Bundle[t[1]].files[t[2]]
                IN  /\ "file_data" \in DOMAIN out
                    /\ out.file_data = base64[t].value
                    /\ Get(out, "file_data_mimetype") = in.mimetype

\* the author of message k is unset or is not in the user index
NoAuthor(k) == Get(messages[k], "user") \notin DOMAIN usersById

Authorized ==
    /\ req.method = "POST"
    /\ req.passkey \notin {"", Undefined}
    /\ secureHash(req.passkey) = env.ADMIN_PASSKEY_HASH
    /\ env.SLACK_BOT_TOKEN \notin {"", Undefined}

C16_AssignOnce ==
    [][/\ \A k \in DOMAIN channelMessages :
             /\ k \in DOMAIN channelMessages'
             /\ channelMessages'[k] = channelMessages[k]
       /\ \A k \in DOMAIN channelData :
             /\ k \in DOMAIN channelData'
             /\ channelData'[k] = channelData[k]
       /\ Len(outcome') > Len(outcome) =>
             channels[idx].name \notin DOMAIN channelMessages]_vars

\* C17: in every snapshot each channel's message list has as many entries
\* as the channel's history call answered, or none; and the message mapping
\* and the descriptor mapping always have the same keys.
C17_AllOrNothing ==
    /\ DOMAIN channelMessages = DOMAIN channelData
    /\ Produced =>
          /\ DOMAIN res.data.messages = DOMAIN res.data.channels
          /\ \A i \in 1..Len(channels) :
                Len(res.data.messages[channels[i].name]) \in {0, returned[i]}

====
